---- MODULE Spec2Model ----
(***************************************************************************)
(* A model of WordSolversPython: the BlankSpace character class, the       *)
(* UnknownWord pattern, the notation parsers and the dictionary trie with  *)
(* its BlankSpace-driven traversal.                                        *)
(*                                                                         *)
(* Python strings are sequences of one-character strings; Python's 0-based *)
(* indices are kept (At(s, i) is s[i]).  Optional values are sequences of  *)
(* length at most one: None is << >>, a value x is << x >>.  The unbounded *)
(* maximum is the source's sentinel -1.                                    *)
(***************************************************************************)
EXTENDS Integers, Sequences, FiniteSets, TLC

VARIABLES
    bs,           \* SpecClass: the BlankSpace under test (optional)
    call,         \* SpecClass: the last call made on it, with its arguments
    ret,          \* SpecClass: what that call returned or raised
    trie,         \* SpecTrie: the nodes of the trie create_dict_trie is building
    inserted,     \* SpecTrie: the words of the list it has gone through
    query,        \* SpecTrie: the query made on the trie, with its arguments
    answer,       \* SpecTrie: what the query yielded, or the error raised
    pw,           \* SpecWord: the locals of parse_unknown_word and where it is
    uw,           \* SpecWord: the UnknownWord in hand, None, or the error raised
    wcall,        \* SpecWord: the last call that gave uw, with its receiver
    heap,         \* SpecShare: the BlankSpace objects, object i being heap[i]
    owner,        \* SpecShare: the UnknownWord under test, its units as objects
    outer,        \* SpecShare: the objects the caller passed to its constructor
    handed,       \* SpecShare: the objects the last call returned
    before,       \* SpecShare: the field values of owner when it was constructed
    vcall         \* SpecShare: the last call made on owner or on an object

class_vars == <<bs, call, ret>>

trie_vars == <<trie, inserted, query, answer>>

word_vars == <<pw, uw, wcall>>

share_vars == <<heap, owner, outer, handed, before, vcall>>

vars == <<bs, call, ret, trie, inserted, query, answer, pw, uw, wcall,
          heap, owner, outer, handed, before, vcall>>

---------------------------------------------------------------------------
(* Bounds of the model *)

\* repetition bounds handed to the BlankSpace constructor are -1..MaxReps
MaxReps == 10
\* arguments of clone_minus are 0..MaxSub
MaxSub == 6
\* repetition bounds of the classes matched against the trie are -1..MaxMatchReps
MaxMatchReps == 2
\* the patterns parsed hold at most MaxUnits units before their filter
MaxUnits == 3
\* the list of parse_unknown_word holds MemoryLimit elements when memory runs out
MemoryLimit == 6

---------------------------------------------------------------------------
(* Strings *)

None == << >>
Some(x) == << x >>
IsNone(o) == o = << >>
The(o) == o[1]

At(s, i) == s[i + 1]
\* s[i:j] for 0 <= i, j <= len(s)
Slice(s, i, j) == IF j <= i THEN << >> ELSE SubSeq(s, i + 1, j)

ascii_lowercase ==
    << "a", "b", "c", "d", "e", "f", "g", "h", "i", "j", "k", "l", "m",
       "n", "o", "p", "q", "r", "s", "t", "u", "v", "w", "x", "y", "z" >>

all_character_set == { ascii_lowercase[i] : i \in DOMAIN ascii_lowercase }

Digits == << "0", "1", "2", "3", "4", "5", "6", "7", "8", "9" >>

\* '0' <= c <= '9'
IsDigit(c) == \E i \in DOMAIN Digits : Digits[i] = c
DigitVal(c) == (CHOOSE i \in DOMAIN Digits : Digits[i] = c) - 1

\* 'a' <= c <= 'z', for a one-character string c
IsLetter(c) == c \in all_character_set

UpperLetters == << "A", "B", "C", "T" >>
LowerOfUpper == << "a", "b", "c", "t" >>

\* str.lower() on the characters the model draws
LowerChar(c) ==
    IF \E i \in DOMAIN UpperLetters : UpperLetters[i] = c
    THEN LowerOfUpper[CHOOSE i \in DOMAIN UpperLetters : UpperLetters[i] = c]
    ELSE c

Lower(s) == [i \in DOMAIN s |-> LowerChar(s[i])]

\* str.find(ch): the 0-based index of the first occurrence, or -1
Find(s, ch) ==
    IF \E i \in DOMAIN s : s[i] = ch
    THEN (CHOOSE i \in DOMAIN s : s[i] = ch /\ \A j \in 1..(i - 1) : s[j] # ch) - 1
    ELSE -1

\* set(chars) of a string
CharSet(s) == { s[i] : i \in DOMAIN s }

\* ''.join(sorted(chars)) of a set of lowercase letters
SortedJoin(chars) == SelectSeq(ascii_lowercase, LAMBDA c : c \in chars)

RECURSIVE StrNat(_)
\* str(n) for n >= 0
StrNat(n) ==
    IF n < 10 THEN << Digits[n + 1] >>
    ELSE StrNat(n \div 10) \o << Digits[(n % 10) + 1] >>

\* str(n) of an int
StrInt(n) == IF n < 0 THEN << "-" >> \o StrNat(0 - n) ELSE StrNat(n)

RECURSIVE DecimalValue(_)
\* the value of a string of decimal digits
DecimalValue(s) ==
    IF Len(s) = 0 THEN 0
    ELSE 10 * DecimalValue(SubSeq(s, 1, Len(s) - 1)) + DigitVal(s[Len(s)])

\* int(s) succeeds: the strings the parser hands to int() start with a digit
\* and hold no whitespace, sign or underscore in the inputs drawn here, so
\* int() succeeds exactly on the all-digit ones
IntParses(s) == Len(s) > 0 /\ \A i \in DOMAIN s : IsDigit(s[i])

---------------------------------------------------------------------------
(* BlankSpace *)

\* BlankSpace.__init__: no argument is validated.  chars is the set of the
\* characters of the chars argument; chars == '' is chars = {}.
BlankSpace(bracketed, negated, min_blanks, max_blanks, chars) ==
    LET initial == IF (~bracketed /\ chars = {}) \/ negated
                   THEN all_character_set ELSE {}
    IN  [ bracketed |-> bracketed,
          negated |-> negated,
          min_blanks |-> min_blanks,
          max_blanks |-> max_blanks,
          \* self.append(chars): remove when negated, add otherwise
          possible_characters |-> IF negated THEN initial \ chars
                                  ELSE initial \cup chars ]

is_empty(self) == self.max_blanks = 0

is_singular(self) == self.min_blanks = 1 /\ self.max_blanks = 1

is_all_chars(self) == self.possible_characters = all_character_set

\* BlankSpace.remove
remove(self, chars) ==
    [self EXCEPT !.possible_characters = self.possible_characters \ chars]

\* BlankSpace.add
add(self, chars) ==
    [self EXCEPT !.possible_characters = self.possible_characters \cup chars]

\* BlankSpace.append
append(self, chars) ==
    IF self.negated THEN remove(self, chars) ELSE add(self, chars)

\* a plausible slip: the soft branch taken for bracketed classes too
apply_filter_soft_ignores_brackets(self, filter_chars, hard) ==
    IF (hard /\ (self.bracketed \/ Cardinality(self.possible_characters) > 1))
       \/ (~hard /\ Cardinality(self.possible_characters) > 1)
    THEN remove(self, all_character_set \ filter_chars)
    ELSE self

\* BlankSpace.apply_filter: the receiver after the call
apply_filter(self, filter_chars, hard) ==
    IF (hard /\ (self.bracketed \/ Cardinality(self.possible_characters) > 1))
       \/ (~hard /\ ~self.bracketed /\ Cardinality(self.possible_characters) > 1)
    THEN remove(self, all_character_set \ filter_chars)
    ELSE self

\* BlankSpace.with_filter: deepcopy, then apply_filter on the copy
with_filter(self, filter_chars, hard) == apply_filter(self, filter_chars, hard)

\* a result: a returned value or a raised error
Returned(v) == [kind |-> "returned", value |-> Some(v), error |-> ""]
ReturnedNone == [kind |-> "returned", value |-> None, error |-> ""]
Raised(msg) == [kind |-> "raised", value |-> None, error |-> msg]
NoResult == [kind |-> "none", value |-> None, error |-> ""]

\* a plausible slip: the new maximum computed from sub_max
clone_minus_max_by_sub_max(self, sub_min, sub_max) ==
    IF is_empty(self)
    THEN Raised("Cannot create a new BlankSpace with less spaces than none")
    ELSE LET smax == IF IsNone(sub_max) THEN sub_min ELSE The(sub_max)
             new_min == IF self.min_blanks - smax > 0
                        THEN self.min_blanks - smax ELSE 0
             new_max == IF self.max_blanks = -1 THEN -1
                        ELSE self.max_blanks - smax
             clone == BlankSpace(self.bracketed, self.negated, new_min, new_max, {})
         IN  Returned([clone EXCEPT
                         !.possible_characters = self.possible_characters])

\* BlankSpace.clone_minus(sub_min, sub_max); sub_max is optional
clone_minus(self, sub_min, sub_max) ==
    IF is_empty(self)
    THEN Raised("Cannot create a new BlankSpace with less spaces than none")
    ELSE LET smax == IF IsNone(sub_max) THEN sub_min ELSE The(sub_max)
             new_min == IF self.min_blanks - smax > 0
                        THEN self.min_blanks - smax ELSE 0
             new_max == IF self.max_blanks = -1 THEN -1
                        ELSE self.max_blanks - sub_min
             clone == BlankSpace(self.bracketed, self.negated, new_min, new_max, {})
         IN  Returned([clone EXCEPT
                         !.possible_characters = self.possible_characters])

\* BlankSpace.__repr__.  The join of a set (the excluded letters of a negated
\* class) comes out in the set's iteration order; the alphabetical one is
\* taken here.
BlankSpace_repr(self) ==
    LET n == Cardinality(self.possible_characters)
        char_str ==
            IF self.negated
            THEN << "^" >> \o SortedJoin(all_character_set \ self.possible_characters)
            ELSE IF ~is_all_chars(self)
                 THEN SortedJoin(self.possible_characters)
                 ELSE ascii_lowercase
        min_str == IF self.min_blanks = 0 THEN << >> ELSE StrInt(self.min_blanks)
        max_str == IF self.max_blanks = -1 THEN << >> ELSE StrInt(self.max_blanks)
    IN  IF ~self.bracketed /\ ~self.negated /\ n = 1
        THEN SortedJoin(self.possible_characters)
        ELSE IF ~self.bracketed /\ ~self.negated /\ n = 26
        THEN << "_" >>
        ELSE IF self.min_blanks = 1 /\ self.max_blanks = 1
        THEN << "[" >> \o char_str \o << "]" >>
        ELSE << "[" >> \o min_str \o << "," >> \o max_str
             \o (IF char_str = ascii_lowercase THEN << >> ELSE char_str)
             \o << "]" >>

---------------------------------------------------------------------------
(* parse_blank_space *)

\* _BRACKET_MATCHES
BRACKET_MATCHES(bracket) ==
    CASE bracket = "[" -> "]"
      [] bracket = "{" -> "}"
      [] bracket = "(" -> ")"

\* _raise_parse_error: the message stands for the ValueError raised
ParseError(msg) == Raised(msg)

\* a plausible slip: one default maximum for brackets and filters alike
DefaultMaxlenAlwaysOne(is_filter) == 1

\* maxlen = -1 if is_filter else 1
DefaultMaxlen(is_filter) == IF is_filter THEN -1 ELSE 1

RECURSIVE ScanMax(_, _, _)
\* the while loop that reads the maximum, entered with unknown[index] a
\* digit: << maxlen, index >> when it ends
ScanMax(unknown, index, maxlen) ==
    LET m == maxlen * 10 + DigitVal(At(unknown, index))
        i == index + 1
    IN  IF i = Len(unknown) THEN << m, i >>
        ELSE IF IsDigit(At(unknown, i)) THEN ScanMax(unknown, i, m)
        ELSE << m, i >>

RECURSIVE ScanLetters(_, _, _)
\* the while loop that appends the listed letters to res, and the error
\* raised when a character that is no letter is met
ScanLetters(unknown, index, res) ==
    IF IsLetter(At(unknown, index))
    THEN LET r == append(res, {At(unknown, index)})
         IN  IF index + 1 = Len(unknown) THEN Returned(r)
             ELSE ScanLetters(unknown, index + 1, r)
    ELSE ParseError("Unexpected character")

\* parse_blank_space from `index = 0` on: unknown is the text between the
\* delimiters, not empty
ParseBody(unknown, is_filter) ==
    LET has_min == IsDigit(At(unknown, 0))
        comma == Find(unknown, ",")
    IN  IF has_min /\ comma = -1
        THEN ParseError("Missing comma in length bounds")
        ELSE IF has_min /\ ~IntParses(Slice(unknown, 0, comma))
        THEN ParseError("Could not parse a minimum bound")
        ELSE
        LET index1 == IF has_min THEN comma ELSE 0
            minlen1 == IF has_min THEN DecimalValue(Slice(unknown, 0, comma)) ELSE 1
            in_comma == At(unknown, index1) = ","
            minlen == IF in_comma /\ index1 = 0 THEN 0 ELSE minlen1
            index2 == IF in_comma THEN index1 + 1 ELSE index1
            scans == in_comma /\ index2 < Len(unknown) /\ IsDigit(At(unknown, index2))
            scan == ScanMax(unknown, index2, 0)
            maxlen == IF ~in_comma THEN DefaultMaxlen(is_filter)
                      ELSE IF scans THEN scan[1] ELSE -1
            index == IF scans THEN scan[2] ELSE index2
        IN  IF -1 < maxlen /\ maxlen < minlen
            THEN ParseError("Lower bound cannot be more than upper bound")
            ELSE IF index < Len(unknown)
            THEN LET negated == At(unknown, index) \in {"^", "!"}
                     index3 == IF negated THEN index + 1 ELSE index
                 IN  IF index3 < Len(unknown)
                     THEN ScanLetters(unknown, index3,
                                      BlankSpace(TRUE, negated, minlen, maxlen, {}))
                     ELSE Returned(BlankSpace(TRUE, negated, minlen, maxlen, {}))
            ELSE Returned(BlankSpace(TRUE, FALSE, minlen, maxlen, all_character_set))

\* parse_blank_space(string)
parse_blank_space(string) ==
    IF Len(string) = 0 THEN ReturnedNone
    ELSE
    LET unknown == Lower(string)
        n == Len(unknown)
    IN  IF n = 1
        THEN IF unknown = << "_" >>
             THEN Returned(BlankSpace(FALSE, FALSE, 1, 1, {}))
             ELSE IF IsLetter(At(unknown, 0))
             THEN Returned(BlankSpace(FALSE, FALSE, 1, 1, {At(unknown, 0)}))
             ELSE ParseError("Single-character BlankSpace must be a letter or underscore")
        ELSE IF At(unknown, 0) \notin {"[", "{", "("}
        THEN ParseError("Multiple character BlankSpace must start with [, {, or (")
        ELSE IF At(unknown, n - 1) # BRACKET_MATCHES(At(unknown, 0))
        THEN ParseError("Last character must match the starting bracket")
        ELSE IF n = 2
        THEN ParseError("Missing characters inside bracket")
        ELSE ParseBody(Slice(unknown, 1, n - 1), At(unknown, 0) # "[")

---------------------------------------------------------------------------
(* SpecClass: a BlankSpace is constructed or parsed, and one call is made   *)
(* on a constructed one                                                    *)

\* the chars arguments and filter sets drawn
ClassLetters == {"a", "b"}
FilterLetters == {"a", "b", "c"}

\* the numbers written in the tokens drawn
MaxTokenNum == 10

\* the letter lists written in the tokens drawn
TokenLetters ==
    { << >>, << "a" >>, << "a", "b" >>, << "a", "b", "c" >>,
      << "b", "a", "b" >>, << "A", "c" >> }

OptNums == {None} \cup { Some(n) : n \in 0..MaxTokenNum }
OptNumStr(o) == IF IsNone(o) THEN << >> ELSE StrNat(The(o))

\* the numeric prefixes: none, or minimum, comma, maximum with either number
\* left out
TokenPrefixes ==
    { [given |-> FALSE, min |-> None, max |-> None] }
    \cup { [given |-> TRUE, min |-> mn, max |-> mx] : mn \in OptNums, mx \in OptNums }

PrefixStr(p) ==
    IF p.given THEN OptNumStr(p.min) \o << "," >> \o OptNumStr(p.max) ELSE << >>

\* a delimited token from its parts
Token(open, prefix, neg, letters, close) ==
    << open >> \o PrefixStr(prefix) \o neg \o letters \o << close >>

NoCall == [op |-> "none", self |-> None, args |-> << >>]

InitClass ==
    /\ bs = None
    /\ call = NoCall
    /\ ret = NoResult

\* BlankSpace(bracketed, negated, min_blanks, max_blanks, chars)
Construct ==
    /\ UNCHANGED << trie_vars, word_vars, share_vars >>
    /\ call.op = "none"
    /\ \E bracketed \in BOOLEAN, negated \in BOOLEAN,
       mn \in 0..MaxReps, mx \in (-1)..MaxReps, chars \in SUBSET ClassLetters :
        /\ bs' = Some(BlankSpace(bracketed, negated, mn, mx, chars))
        /\ call' = [op |-> "construct", self |-> None,
                    args |-> << bracketed, negated, mn, mx, chars >>]
        /\ ret' = NoResult

\* bs = parse_blank_space(token) for a delimited token; no object is left
\* under test when the parse raises
ParseDelimited ==
    /\ UNCHANGED << trie_vars, word_vars, share_vars >>
    /\ call.op = "none"
    /\ \E open \in {"[", "{", "("}, close \in {"]", "}", ")"},
       prefix \in TokenPrefixes, neg \in {<< >>, << "^" >>, << "!" >>},
       letters \in TokenLetters :
        LET token == Token(open, prefix, neg, letters, close)
            r == parse_blank_space(token)
        IN  /\ ret' = r
            /\ bs' = r.value
            /\ call' = [op |-> "parse_blank_space", self |-> None,
                        args |-> << token, open, prefix, neg, letters, close >>]

\* bs = parse_blank_space(string) for a string of at most one character
ParseShort ==
    /\ UNCHANGED << trie_vars, word_vars, share_vars >>
    /\ call.op = "none"
    /\ \E string \in {<< >>} \cup
                  { << c >> : c \in {"a", "B", "z", "_", "1", "[", "^", ","} } :
        LET r == parse_blank_space(string)
        IN  /\ ret' = r
            /\ bs' = r.value
            /\ call' = [op |-> "parse_blank_space_short", self |-> None,
                        args |-> << string >>]

\* bs.apply_filter(filter_chars, hard)
ApplyFilter ==
    /\ UNCHANGED << trie_vars, word_vars, share_vars >>
    /\ call.op = "construct"
    /\ \E filter_chars \in SUBSET FilterLetters, hard \in BOOLEAN :
        /\ bs' = Some(apply_filter(The(bs), filter_chars, hard))
        /\ call' = [op |-> "apply_filter", self |-> bs,
                    args |-> << filter_chars, hard >>]
        /\ ret' = ReturnedNone

\* bs.with_filter(filter_chars, hard)
WithFilter ==
    /\ UNCHANGED << trie_vars, word_vars, share_vars >>
    /\ call.op = "construct"
    /\ \E filter_chars \in SUBSET FilterLetters, hard \in BOOLEAN :
        /\ ret' = Returned(with_filter(The(bs), filter_chars, hard))
        /\ call' = [op |-> "with_filter", self |-> bs,
                    args |-> << filter_chars, hard >>]
        /\ UNCHANGED bs

\* bs.clone_minus(sub_min, sub_max), sub_max given or left to its default
CloneMinus ==
    /\ UNCHANGED << trie_vars, word_vars, share_vars >>
    /\ call.op = "construct"
    /\ \E sub_min \in 0..MaxSub, sub_max \in {None} \cup { Some(n) : n \in 0..MaxSub } :
        /\ ret' = clone_minus(The(bs), sub_min, sub_max)
        /\ call' = [op |-> "clone_minus", self |-> bs,
                    args |-> << sub_min, sub_max >>]
        /\ UNCHANGED bs

\* parse_blank_space(repr(bs))
ReprParse ==
    /\ UNCHANGED << trie_vars, word_vars, share_vars >>
    /\ call.op = "construct"
    /\ LET text == BlankSpace_repr(The(bs))
       IN  /\ ret' = parse_blank_space(text)
           /\ call' = [op |-> "repr_parse", self |-> bs, args |-> << text >>]
           /\ UNCHANGED bs

---------------------------------------------------------------------------
(* Properties of BlankSpace and parse_blank_space, under SpecClass *)

\* min_blanks >= 0 and max_blanks unbounded or >= min_blanks
ValidBounds(b) ==
    /\ b.min_blanks >= 0
    /\ b.max_blanks = -1 \/ b.max_blanks >= b.min_blanks

\* the parts of the last delimited token parsed
TokenText == call.args[1]
TokenOpen == call.args[2]
TokenPrefix == call.args[3]
TokenNeg == call.args[4]
TokenLetterList == call.args[5]
TokenClose == call.args[6]

\* the token is well formed: the closer matches the opener, the body is not
\* empty and a written minimum does not exceed a written maximum
WellFormedToken ==
    /\ << TokenOpen, TokenClose >> \in {<< "[", "]" >>, << "{", "}" >>, << "(", ")" >>}
    /\ TokenPrefix.given \/ TokenNeg # << >> \/ TokenLetterList # << >>
    /\ (~IsNone(TokenPrefix.min) /\ ~IsNone(TokenPrefix.max))
         => The(TokenPrefix.min) <= The(TokenPrefix.max)

ListedLetters == { LowerChar(TokenLetterList[i]) : i \in DOMAIN TokenLetterList }

\* C3: parse_blank_space of a well-formed delimited token returns a bracketed
\* class; its bounds are the written ones, a minimum left out being 0 and a
\* maximum left out unbounded, and without a numeric prefix they are 1,1 in
\* square brackets and 1,unbounded in a filter's brackets; its characters are
\* the listed letters, the alphabet without them after ^ or !, and the whole
\* alphabet when no letter is listed.  "[3,5abc]" gives 3, 5, {a,b,c} and
\* "[^abc]" the 23 other letters.
C3_ParseClassBounds ==
    (call.op = "parse_blank_space" /\ WellFormedToken) =>
        /\ ret.kind = "returned"
        /\ ~IsNone(ret.value)
        /\ LET b == The(ret.value)
           IN  /\ b.bracketed
               /\ b.min_blanks = IF ~TokenPrefix.given THEN 1
                                 ELSE IF IsNone(TokenPrefix.min) THEN 0
                                 ELSE The(TokenPrefix.min)
               /\ b.max_blanks = IF ~TokenPrefix.given
                                 THEN (IF TokenOpen = "[" THEN 1 ELSE -1)
                                 ELSE IF IsNone(TokenPrefix.max) THEN -1
                                 ELSE The(TokenPrefix.max)
               /\ b.negated = (TokenNeg # << >>)
               /\ b.possible_characters =
                      IF TokenNeg # << >> THEN all_character_set \ ListedLetters
                      ELSE IF TokenLetterList = << >> THEN all_character_set
                      ELSE ListedLetters
               /\ TokenText = << "[", "3", ",", "5", "a", "b", "c", "]" >>
                    => /\ b.min_blanks = 3 /\ b.max_blanks = 5
                       /\ b.possible_characters = {"a", "b", "c"}
               /\ TokenText = << "[", "^", "a", "b", "c", "]" >>
                    => /\ Cardinality(b.possible_characters) = 23
                       /\ b.possible_characters \cap {"a", "b", "c"} = {}

\* "{2,abc}" has been parsed: a filter token with a written minimum only
C3_Witness ==
    /\ call.op = "parse_blank_space"
    /\ TokenText = << "{", "2", ",", "a", "b", "c", "}" >>
    /\ ret.kind = "returned"
    /\ The(ret.value).max_blanks = -1

\* C5 as claimed: parse_blank_space(repr(c)) succeeds for every class c with
\* valid bounds and gives back c's characters, bounds and negation
C5_RoundTrip ==
    (call.op = "repr_parse" /\ ValidBounds(The(call.self))) =>
        /\ ret.kind = "returned"
        /\ ~IsNone(ret.value)
        /\ LET c == The(call.self)
               b == The(ret.value)
           IN  /\ b.possible_characters = c.possible_characters
               /\ b.min_blanks = c.min_blanks
               /\ b.max_blanks = c.max_blanks
               /\ b.negated = c.negated

CloneMinusCalled(mn, mx, sub_min, sub_max) ==
    /\ call.op = "clone_minus"
    /\ The(call.self).min_blanks = mn
    /\ The(call.self).max_blanks = mx
    /\ call.args = << sub_min, Some(sub_max) >>

CloneMinusGave(mn, mx) ==
    /\ ret.kind = "returned"
    /\ The(ret.value).min_blanks = mn
    /\ The(ret.value).max_blanks = mx

\* what C6 says besides the second boundary value
C6_Rest ==
    /\ CloneMinusCalled(3, 5, 1, 1) => CloneMinusGave(2, 4)
    /\ (call.op = "clone_minus" /\ The(call.self).max_blanks = -1)
         => (ret.kind = "returned" /\ The(ret.value).max_blanks = -1)
    /\ (call.op = "clone_minus" /\ The(call.self).max_blanks = 0)
         => ret.kind = "raised"

C7_FilterStrength ==
    call.op = "apply_filter" =>
        LET c == The(call.self)
            b == The(bs)
            F == call.args[1]
            hard == call.args[2]
            many == Cardinality(c.possible_characters) > 1
            narrowed == c.possible_characters \cap F
        IN  /\ (c.bracketed /\ hard) => b.possible_characters = narrowed
            /\ (c.bracketed /\ ~hard) => b.possible_characters = c.possible_characters
            /\ (~c.bracketed /\ many) => b.possible_characters = narrowed
            /\ (~c.bracketed /\ ~many) => b.possible_characters = c.possible_characters
            /\ b = [c EXCEPT !.possible_characters = b.possible_characters]
            /\ (c.bracketed /\ c.possible_characters = {"a", "b"} /\ ~hard)
                 => b.possible_characters = {"a", "b"}
            /\ (c.bracketed /\ c.possible_characters = {"a", "b"} /\ hard
                /\ F = {"b", "c"}) => b.possible_characters = {"b"}

\* the hard filter {b,c} has been applied to the bracketed [ab]
C7_Witness ==
    /\ call.op = "apply_filter"
    /\ The(call.self).bracketed
    /\ The(call.self).possible_characters = {"a", "b"}
    /\ call.args = << {"b", "c"}, TRUE >>
    /\ The(bs).possible_characters = {"b"}

\* C9 as claimed: no BlankSpace exists, constructed or parsed, with a negative
\* minimum or a finite maximum below its minimum
C9_AsClaimed ==
    ~IsNone(bs) => ValidBounds(The(bs))

---------------------------------------------------------------------------
(* UnknownWord *)

\* UnknownWord.__init__: the spaces and the filter are deep copies
UnknownWord(spaces, filter, hard_filter) ==
    IF ~IsNone(filter) /\ ~The(filter).bracketed
    THEN Raised("A filter must be bracketed")
    ELSE Returned([spaces |-> spaces, filter |-> filter, hard_filter |-> hard_filter])

has_filter(self) == ~IsNone(self.filter)

RECURSIVE CalcBoundsFrom(_, _, _, _)
\* the loop of _calc_length_bounds from space i on
CalcBoundsFrom(spaces, i, calc_min, calc_max) ==
    IF i > Len(spaces) THEN << calc_min, calc_max >>
    ELSE CalcBoundsFrom(spaces, i + 1, calc_min + spaces[i].min_blanks,
                        IF calc_max = -1 \/ spaces[i].max_blanks = -1 THEN -1
                        ELSE calc_max + spaces[i].max_blanks)

\* UnknownWord._calc_length_bounds
calc_length_bounds(self) == CalcBoundsFrom(self.spaces, 1, 0, 0)

\* a <= b <= c as Python chains it
Between(a, b, c) == a <= b /\ b <= c

\* UnknownWord.is_possible
is_possible(self) ==
    LET calc_min == calc_length_bounds(self)[1]
        calc_max == calc_length_bounds(self)[2]
    IN  \/ ~has_filter(self)
        \/ Between(The(self.filter).min_blanks, calc_min, The(self.filter).max_blanks)
        \/ Between(The(self.filter).min_blanks, calc_max, The(self.filter).max_blanks)

\* UnknownWord.get_effective_spaces
get_effective_spaces(self) ==
    IF ~has_filter(self) THEN self.spaces
    ELSE [i \in DOMAIN self.spaces |->
            with_filter(self.spaces[i], The(self.filter).possible_characters,
                        self.hard_filter)]

\* self.filter.clone_minus() if self.has_filter else None, as a result
FilterMinusOne(self) ==
    IF has_filter(self) THEN clone_minus(The(self.filter), 1, None)
    ELSE ReturnedNone

\* UnknownWord.without_first_letter: a new UnknownWord, None, or the error
\* clone_minus raises
without_first_letter(self) ==
    LET calc_max == calc_length_bounds(self)[2]
        filter_minus_one == FilterMinusOne(self)
        first == self.spaces[1]
        skip_first == Tail(self.spaces)
    IN  IF calc_max = 0 THEN ReturnedNone
        ELSE IF filter_minus_one.kind = "raised" THEN filter_minus_one
        ELSE IF calc_max = 1
        THEN UnknownWord(<< >>, filter_minus_one.value, self.hard_filter)
        ELSE IF first.max_blanks = 0
        THEN UnknownWord(skip_first, self.filter, self.hard_filter)
        ELSE IF first.max_blanks = 1
        THEN UnknownWord(skip_first, filter_minus_one.value, self.hard_filter)
        ELSE UnknownWord(<< The(clone_minus(first, 1, None).value) >> \o skip_first,
                         filter_minus_one.value, self.hard_filter)

\* UnknownWord.without_space(index), index being 0-based and within the list
without_space(self, index) ==
    LET cut == self.spaces[index + 1]
        new_filter == IF has_filter(self)
                      THEN clone_minus(The(self.filter), cut.min_blanks,
                                       Some(cut.max_blanks))
                      ELSE ReturnedNone
    IN  IF new_filter.kind = "raised" THEN new_filter
        ELSE UnknownWord(SubSeq(self.spaces, 1, index)
                           \o SubSeq(self.spaces, index + 2, Len(self.spaces)),
                         new_filter.value, self.hard_filter)

---------------------------------------------------------------------------
(* parse_unknown_word *)

\* the locals of parse_unknown_word at its call; spaces holds what
\* parse_blank_space returned, None included
PWStart(string) ==
    [ string |-> string, unknown |-> Lower(string), index |-> 0, spaces |-> << >>,
      filter |-> None, hard_filter |-> FALSE,
      pc |-> IF Len(string) = 0 THEN "returned_none" ELSE "loop",
      error |-> "" ]

PWRaise(st, msg) == [st EXCEPT !.pc = "raised", !.error = msg]

\* one iteration of the while loop, for a letter or an underscore
PWLetter(st) ==
    LET c == At(st.unknown, st.index)
    IN  [st EXCEPT !.spaces = Append(st.spaces, parse_blank_space(<< c >>).value),
                   !.index = st.index + 1]

\* one iteration of the while loop, for an opening delimiter
PWBracket(st) ==
    LET c == At(st.unknown, st.index)
        end_bracket == BRACKET_MATCHES(c)
        end_index == Find(Slice(st.unknown, st.index, Len(st.unknown)), end_bracket)
                     + st.index
        parsed == parse_blank_space(Slice(st.unknown, st.index, end_index + 1))
    IN  IF parsed.kind = "raised" THEN PWRaise(st, parsed.error)
        ELSE IF c = "["
        THEN [st EXCEPT !.spaces = Append(st.spaces, parsed.value),
                        !.index = end_index + 1]
        ELSE IF end_index # Len(st.unknown) - 1
        THEN PWRaise([st EXCEPT !.filter = parsed.value, !.hard_filter = (c = "{"),
                                !.index = end_index],
                     "Filter must be at the end of the word")
        ELSE [st EXCEPT !.filter = parsed.value, !.hard_filter = (c = "{"),
                        !.index = end_index + 1]

\* the character the loop is at
PWChar(st) == At(st.unknown, st.index)
PWAtLetter(st) == PWChar(st) = "_" \/ IsLetter(PWChar(st))
PWAtBracket(st) == PWChar(st) \in {"[", "{", "("}

\* one iteration of the while loop
PWStep(st) ==
    IF PWAtLetter(st) THEN PWLetter(st)
    ELSE IF PWAtBracket(st) THEN PWBracket(st)
    ELSE PWRaise(st, "Unexpected character")

\* return UnknownWord(spaces, filter, hard_filter)
PWReturn(st) ==
    UnknownWord([i \in DOMAIN st.spaces |-> The(st.spaces[i])], st.filter,
                st.hard_filter)

RECURSIVE PWRun(_)
\* the loop run to its end; like the loop, it has no end on a string whose
\* "[" has no "]" after it
PWRun(st) ==
    IF st.pc # "loop" THEN st
    ELSE IF st.index < Len(st.unknown) THEN PWRun(PWStep(st))
    ELSE [st EXCEPT !.pc = "returned"]

\* parse_unknown_word(string), for a string on which the loop ends
parse_unknown_word(string) ==
    LET st == PWRun(PWStart(string))
    IN  IF st.pc = "returned_none" THEN ReturnedNone
        ELSE IF st.pc = "raised" THEN Raised(st.error)
        ELSE PWReturn(st)

---------------------------------------------------------------------------
(* DictionaryNode.  The trie is a heap: node n is nodes[n]; a node's _parent *)
(* is a node or NoNode, its _child_map the (path, child) entries in the     *)
(* order the dict received them.                                            *)

NoNode == 0
NoPath == ""

\* DictionaryNode.__init__
DictionaryNode(parent, parent_path, is_word) ==
    [ parent |-> parent, parent_path |-> parent_path, is_word |-> is_word,
      child_map |-> << >> ]

\* DictionaryNode(): the root create_dict_trie starts from
Root == 1

is_root(nodes, n) == nodes[n].parent = NoNode

\* path in self.children
InChildren(nodes, n, c) ==
    \E i \in DOMAIN nodes[n].child_map : nodes[n].child_map[i].path = c

\* self.children[c]
ChildAt(nodes, n, c) ==
    LET m == nodes[n].child_map
    IN  m[CHOOSE i \in DOMAIN m : m[i].path = c].child

\* the children, in the dict's order
ChildrenOf(nodes, n) ==
    [i \in DOMAIN nodes[n].child_map |-> nodes[n].child_map[i].child]

\* self.children[path] = child: a present key keeps its place
SetChild(child_map, path, child) ==
    IF \E i \in DOMAIN child_map : child_map[i].path = path
    THEN [i \in DOMAIN child_map |->
            IF child_map[i].path = path THEN [path |-> path, child |-> child]
            ELSE child_map[i]]
    ELSE Append(child_map, [path |-> path, child |-> child])

\* DictionaryNode.make_child: the heap with the new node, which is the last
make_child(nodes, n, path, is_word) ==
    LET child == Len(nodes) + 1
    IN  Append([nodes EXCEPT ![n].child_map = SetChild(nodes[n].child_map, path, child)],
               DictionaryNode(n, path, is_word))

RECURSIVE has_child(_, _, _)
\* DictionaryNode.has_child(path): path[0] of an empty path is an IndexError
has_child(nodes, n, path) ==
    IF Len(path) = 1 THEN Returned(InChildren(nodes, n, path[1]))
    ELSE IF Len(path) = 0 THEN Raised("IndexError")
    ELSE IF InChildren(nodes, n, path[1])
    THEN has_child(nodes, ChildAt(nodes, n, path[1]), Tail(path))
    ELSE Returned(FALSE)

\* self.has_child(c) for one character c
HasChildChar(nodes, n, c) == The(has_child(nodes, n, << c >>).value)

RECURSIVE get_child(_, _, _)
\* DictionaryNode.get_child(path): the node, or None
get_child(nodes, n, path) ==
    IF Len(path) = 0 THEN Some(n)
    ELSE IF HasChildChar(nodes, n, path[1])
    THEN get_child(nodes, ChildAt(nodes, n, path[1]), Tail(path))
    ELSE None

\* DictionaryNode.__getitem__ for one character: self.children.get(item)
GetItem(nodes, n, c) == IF InChildren(nodes, n, c) THEN Some(ChildAt(nodes, n, c)) ELSE None

RECURSIVE DictionaryNode_repr(_, _)
\* DictionaryNode.__repr__: the letters from the root, by the parent links
DictionaryNode_repr(nodes, n) ==
    IF is_root(nodes, n) THEN << >>
    ELSE DictionaryNode_repr(nodes, nodes[n].parent) \o << nodes[n].parent_path >>

RECURSIVE all_words(_, _)
RECURSIVE AllWordsFrom(_, _, _)
\* DictionaryNode.all_words: the words in the order yielded, str(self) first
\* when the node is a word, then the words of each child in the dict's order
all_words(nodes, n) ==
    (IF nodes[n].is_word THEN << DictionaryNode_repr(nodes, n) >> ELSE << >>)
    \o AllWordsFrom(nodes, n, 1)

\* the for loop of all_words over self.children.values() from the i-th child on
AllWordsFrom(nodes, n, i) ==
    IF i > Len(nodes[n].child_map) THEN << >>
    ELSE all_words(nodes, nodes[n].child_map[i].child)
         \o AllWordsFrom(nodes, n, i + 1)

\* a plausible slip: the start node yielded while one repetition is still due
YieldsSelfAtMostOne(space) == space.min_blanks <= 1

\* if space.min_blanks == 0: yield self
YieldsSelf(space) == space.min_blanks = 0

RECURSIVE get_possible_children(_, _, _)
RECURSIVE PossibleChildrenFrom(_, _, _, _)
\* DictionaryNode.get_possible_children: the nodes in the order yielded.  The
\* characters of the set are taken in alphabetical order.
get_possible_children(nodes, n, space) ==
    (IF YieldsSelf(space) THEN << n >> ELSE << >>)
    \o (IF space.max_blanks = 0 THEN << >>
        ELSE PossibleChildrenFrom(nodes, n, space, 1))

\* the for loop over space.possible_characters from the i-th letter on
PossibleChildrenFrom(nodes, n, space, i) ==
    IF i > Len(ascii_lowercase) THEN << >>
    ELSE LET c == ascii_lowercase[i]
         IN  (IF c \in space.possible_characters /\ HasChildChar(nodes, n, c)
              THEN get_possible_children(nodes, The(GetItem(nodes, n, c)),
                                         The(clone_minus(space, 1, None).value))
              ELSE << >>)
             \o PossibleChildrenFrom(nodes, n, space, i + 1)

\* clean_word
clean_word(word) == SelectSeq(Lower(word), IsLetter)

RECURSIVE Descend(_, _, _)
\* the inner loop of create_dict_trie over the letters of prefix, from node
\* current: the heap and the node reached
Descend(nodes, current, prefix) ==
    IF Len(prefix) = 0 THEN [nodes |-> nodes, current |-> current]
    ELSE IF HasChildChar(nodes, current, prefix[1])
    THEN Descend(nodes, The(get_child(nodes, current, << prefix[1] >>)), Tail(prefix))
    ELSE Descend(make_child(nodes, current, prefix[1], FALSE), Len(nodes) + 1,
                 Tail(prefix))

\* a plausible slip: the last letter's node made anew even when it exists
InsertWordAlwaysMakesLast(nodes, raw) ==
    LET word == clean_word(raw)
    IN  IF Len(word) = 0 THEN Raised("IndexError")
        ELSE LET d == Descend(nodes, Root, SubSeq(word, 1, Len(word) - 1))
             IN  Returned(make_child(d.nodes, d.current, word[Len(word)], TRUE))

\* one iteration of the outer loop of create_dict_trie: the heap after it, or
\* the IndexError of word[-1] when the cleaned word is empty
InsertWord(nodes, raw) ==
    LET word == clean_word(raw)
    IN  IF Len(word) = 0 THEN Raised("IndexError")
        ELSE LET d == Descend(nodes, Root, SubSeq(word, 1, Len(word) - 1))
                 last == word[Len(word)]
             IN  IF HasChildChar(d.nodes, d.current, last)
                 THEN Returned([d.nodes EXCEPT
                        ![The(get_child(d.nodes, d.current, << last >>))].is_word = TRUE])
                 ELSE Returned(make_child(d.nodes, d.current, last, TRUE))

\* is_word(word), _DICT_TRIE being the trie nodes: the result of has_child on
\* the cleaned word
is_word(nodes, word) == has_child(nodes, Root, clean_word(word))

RECURSIVE MatchUnits(_, _, _, _)
\* match threaded from the nodes in current through the units from the i-th
\* on: the nodes reached, in order
MatchUnits(nodes, current, units, i) ==
    IF i > Len(units) THEN current
    ELSE LET RECURSIVE Each(_)
             Each(k) == IF k > Len(current) THEN << >>
                        ELSE get_possible_children(nodes, current[k], units[i])
                             \o Each(k + 1)
         IN  MatchUnits(nodes, Each(1), units, i + 1)

\* the words of the terminal nodes that the pattern's effective units lead
\* to from the root
MatchPattern(nodes, word) ==
    LET reached == MatchUnits(nodes, << Root >>, get_effective_spaces(word), 1)
        terminal == SelectSeq(reached, LAMBDA n : nodes[n].is_word)
    IN  [i \in DOMAIN terminal |-> DictionaryNode_repr(nodes, terminal[i])]

---------------------------------------------------------------------------
(* SpecTrie: create_dict_trie goes through a word list, and one query is   *)
(* made on the trie it has built                                           *)

\* the words the list is drawn from, as given (not yet cleaned)
WordInputs ==
    { << "c", "a", "t" >>, << "c", "a" >>, << "c", "a", "a", "t" >>,
      << "c", "a", "b" >>, << "C", "a", "t" >>, << "a", "-", "b" >>, << "-" >> }

\* the character sets of the classes matched
QueryCharSets == { {}, {"a"}, {"a", "t"}, {"a", "b", "t"}, all_character_set }

\* the classes matched: every valid pair of bounds up to MaxMatchReps
QuerySpaces ==
    { BlankSpace(TRUE, FALSE, mn, mx, chars) :
        mn \in 0..MaxMatchReps, mx \in (-1)..MaxMatchReps, chars \in QueryCharSets }

\* the patterns matched
PatternQueries ==
    { << "c", "[", "1", ",", "2", "a", "]", "t" >>,
      << "c", "_", "t" >>,
      << "c", "a", "[", ",", "2", "a", "b", "t", "]" >>,
      << "c", "[", "1", ",", "a", "]", "t" >>,
      << "[", "2", ",", "]", "(", "a", "c", "t", ")" >>,
      << "_", "[", "c", "a", "]", "[", ",", "b", "t", "]", "{", "a", "b", "}" >> }

\* the strings asked of is_word: the words of the list, and prefixes, other
\* strings and strings without a letter
IsWordInputs ==
    WordInputs \cup { << "c" >>, << "c", "a", "a" >>, << "C", "-", "a", "b" >>,
                      << "t", "a" >>, << "a" >>, << >> }

NoQuery == [op |-> "none", node |-> NoNode, space |-> None, pattern |-> << >>]

InitTrie ==
    /\ trie = << DictionaryNode(NoNode, NoPath, FALSE) >>
    /\ inserted = {}
    /\ query = NoQuery
    /\ answer = NoResult

\* one iteration of the outer loop of create_dict_trie, on a word with a letter
Insert ==
    /\ UNCHANGED << class_vars, word_vars, share_vars >>
    /\ query.op = "none"
    /\ \E raw \in WordInputs :
        LET r == InsertWord(trie, raw)
        IN  /\ r.kind = "returned"
            /\ trie' = The(r.value)
            /\ inserted' = inserted \cup {raw}
            /\ UNCHANGED << query, answer >>

\* one iteration of the outer loop of create_dict_trie, on a word without
\* letters: create_dict_trie ends with the IndexError
InsertRaises ==
    /\ UNCHANGED << class_vars, word_vars, share_vars >>
    /\ query.op = "none"
    /\ \E raw \in WordInputs :
        LET r == InsertWord(trie, raw)
        IN  /\ r.kind = "raised"
            /\ answer' = r
            /\ query' = [NoQuery EXCEPT !.op = "create_dict_trie", !.pattern = raw]
            /\ UNCHANGED << trie, inserted >>

\* list(node.get_possible_children(space)) on a node of the trie
QueryPossibleChildren ==
    /\ UNCHANGED << class_vars, word_vars, share_vars >>
    /\ query.op = "none"
    /\ \E n \in DOMAIN trie, space \in QuerySpaces :
        /\ ValidBounds(space)
        /\ query' = [NoQuery EXCEPT !.op = "get_possible_children", !.node = n,
                                    !.space = Some(space)]
        /\ answer' = Returned(get_possible_children(trie, n, space))
        /\ UNCHANGED << trie, inserted >>

\* the words a parsed pattern matches in the trie
QueryMatchPattern ==
    /\ UNCHANGED << class_vars, word_vars, share_vars >>
    /\ query.op = "none"
    /\ \E pattern \in PatternQueries :
        LET parsed == parse_unknown_word(pattern)
        IN  /\ parsed.kind = "returned"
            /\ query' = [NoQuery EXCEPT !.op = "match_pattern", !.node = Root,
                                        !.pattern = pattern]
            /\ answer' = Returned(MatchPattern(trie, The(parsed.value)))
            /\ UNCHANGED << trie, inserted >>

\* is_word(word) on the trie built
QueryIsWord ==
    /\ UNCHANGED << class_vars, word_vars, share_vars >>
    /\ query.op = "none"
    /\ \E word \in IsWordInputs :
        /\ query' = [NoQuery EXCEPT !.op = "is_word", !.node = Root, !.pattern = word]
        /\ answer' = is_word(trie, word)
        /\ UNCHANGED << trie, inserted >>

---------------------------------------------------------------------------
(* Properties of the traversal, under SpecTrie *)

RECURSIVE ClimbsTo(_, _, _, _, _)
\* following the parent links k times from m ends at n, over letters of chars
ClimbsTo(nodes, m, n, k, chars) ==
    IF k = 0 THEN m = n
    ELSE /\ nodes[m].parent # NoNode
         /\ nodes[m].parent_path \in chars
         /\ ClimbsTo(nodes, nodes[m].parent, n, k - 1, chars)

\* the nodes k edges below n over letters of the class, for a k the class allows
ReachableBy(nodes, n, space) ==
    { m \in DOMAIN nodes :
        \E k \in 0..Len(nodes) :
            /\ space.min_blanks <= k
            /\ space.max_blanks = -1 \/ k <= space.max_blanks
            /\ ClimbsTo(nodes, m, n, k, space.possible_characters) }

Elements(seq) == { seq[i] : i \in DOMAIN seq }
NoRepeats(seq) == \A i, j \in DOMAIN seq : seq[i] = seq[j] => i = j

\* C1: get_possible_children(space) on a node n, for a class with valid
\* bounds, ends and yields, each once, exactly the nodes that lie k edges
\* below n over letters of the class for a k between min_blanks and
\* max_blanks (any k >= min_blanks when the maximum is unbounded); with
\* min_blanks = 0 the node n is among them.
C1_PossibleChildren ==
    query.op = "get_possible_children" =>
        LET yielded == The(answer.value)
            space == The(query.space)
        IN  /\ answer.kind = "returned"
            /\ NoRepeats(yielded)
            /\ Elements(yielded) = ReachableBy(trie, query.node, space)
            /\ space.min_blanks = 0 => query.node \in Elements(yielded)

\* an unbounded class asking for at least one letter has yielded three nodes
\* or more from the root
C1_Witness ==
    /\ query.op = "get_possible_children"
    /\ query.node = Root
    /\ The(query.space).min_blanks = 1
    /\ The(query.space).max_blanks = -1
    /\ Len(The(answer.value)) >= 3

\* the trie is the one built from cat, ca, caat and cab, and "c[1,2a]t" has
\* been matched against it
ExampleMatched ==
    /\ query.op = "match_pattern"
    /\ query.pattern = << "c", "[", "1", ",", "2", "a", "]", "t" >>
    /\ { clean_word(w) : w \in inserted }
         = { << "c", "a", "t" >>, << "c", "a" >>, << "c", "a", "a", "t" >>,
             << "c", "a", "b" >> }

\* C2 as claimed: the example yields exactly the word cat
C2_AsClaimed ==
    ExampleMatched => Elements(The(answer.value)) = { << "c", "a", "t" >> }

\* C2, amended: "c[1,2a]t" on the trie of cat, ca, caat and cab yields exactly
\* the words cat and caat
C2_ExampleWords ==
    ExampleMatched =>
        Elements(The(answer.value)) = { << "c", "a", "t" >>, << "c", "a", "a", "t" >> }

\* the example has been matched and caat is among the words
C2_Witness ==
    /\ ExampleMatched
    /\ << "c", "a", "a", "t" >> \in Elements(The(answer.value))

\* the parent links agree with the child maps, and the letters of a word's
\* node, read from the root, lead from the root to that node
TrieWellFormed(nodes) ==
    /\ nodes[Root].parent = NoNode
    /\ \A n \in DOMAIN nodes : \A i \in DOMAIN nodes[n].child_map :
        LET e == nodes[n].child_map[i]
        IN  /\ e.child \in DOMAIN nodes
            /\ nodes[e.child].parent = n
            /\ nodes[e.child].parent_path = e.path
    /\ \A n \in DOMAIN nodes :
        nodes[n].is_word =>
            get_child(nodes, Root, DictionaryNode_repr(nodes, n)) = Some(n)

\* all_words(root) holds the cleaned inserted words, each once, and no other
AllWordsAreInserted ==
    /\ NoRepeats(all_words(trie, Root))
    /\ Elements(all_words(trie, Root)) = { clean_word(w) : w \in inserted }

\* a step keeps every node, its links, its children and a set is_word flag
KeepsNodes ==
    /\ Len(trie') >= Len(trie)
    /\ \A n \in DOMAIN trie :
        /\ trie'[n].parent = trie[n].parent
        /\ trie'[n].parent_path = trie[n].parent_path
        /\ trie[n].is_word => trie'[n].is_word
        /\ \A i \in DOMAIN trie[n].child_map :
            /\ i \in DOMAIN trie'[n].child_map
            /\ trie'[n].child_map[i] = trie[n].child_map[i]

\* C11: after every insertion of create_dict_trie, on words that hold a
\* letter, in any order, with duplicates and prefixes of other words: the
\* root has no parent, a child stored under a letter has that node as parent
\* and that letter as parent path, all_words(root) holds each cleaned inserted
\* word exactly once and nothing else, each word being the path letters from
\* the root to its node; and no insertion removes a node or clears is_word.
C11_TrieInvariant ==
    /\ [](TrieWellFormed(trie) /\ AllWordsAreInserted)
    /\ [][KeepsNodes]_vars

\* cat, its duplicate Cat, its prefix ca and caat have been inserted, whatever
\* the order, and all_words yields three words
C11_Witness ==
    /\ { << "c", "a", "t" >>, << "C", "a", "t" >>, << "c", "a" >>,
         << "c", "a", "a", "t" >> } \subseteq inserted
    /\ Len(all_words(trie, Root)) = 3

\* C12 as claimed: is_word(w) returns true exactly when the cleaned w is one
\* of the cleaned words the trie was built from, and so false for a string
\* that is only a proper prefix of such words
C12_AsClaimed ==
    query.op = "is_word" =>
        /\ answer.kind = "returned"
        /\ The(answer.value) <=>
               clean_word(query.pattern) \in { clean_word(w) : w \in inserted }

---------------------------------------------------------------------------
(* SpecWord: parse_unknown_word runs on a string, iteration by iteration,  *)
(* and the UnknownWord it returns is asked is_possible or has its first    *)
(* letter taken, again and again                                           *)

\* the unit tokens and filter tokens the strings are made of
UnitTokens ==
    { << "a" >>, << "B" >>, << "c" >>, << "_" >>,
      << "[", "1", ",", "2", "a", "]" >>, << "[", ",", "2", "a", "]" >>,
      << "[", ",", "1", "a", "]" >>, << "[", ",", "0", "a", "]" >>,
      << "[", "2", ",", "b", "]" >> }

FilterTokens ==
    { << >>, << "{", "a", "b", "c", "}" >>, << "(", "a", "b", ")" >>,
      << "{", "1", ",", "1", "}" >>, << "{", ",", "0", "a", "}" >>,
      << "{", "2", ",", "3", "}" >>, << "(", "2", ",", ")" >>,
      << "{", "1", "0", ",", "2", "0", "}" >> }

RECURSIVE UnitStrings(_)
\* the concatenations of at most n unit tokens
UnitStrings(n) ==
    IF n = 0 THEN { << >> }
    ELSE UnitStrings(n - 1)
         \cup { u \o t : u \in UnitStrings(n - 1), t \in UnitTokens }

\* strings the grammar rejects or that lack a closing delimiter
MalformedInputs ==
    { << "a", "b", "[", "c", "d" >>, << "a", "b", "[" >>, << "[", "a", "b", "}" >>,
      << "a", "{", "b" >>, << "a", "(", "b" >>, << "a", "{", "b", "}", "c" >>,
      << "a", "1" >>, << "a", "[", "]" >>, << "[", "2", ",", "1", "a", "]" >>,
      << "[", "a", "(", "b", "]" >> }

PatternInputs ==
    { u \o f : u \in UnitStrings(MaxUnits), f \in FilterTokens } \cup MalformedInputs

PWIdle == [PWStart(<< >>) EXCEPT !.pc = "idle"]

NoWordCall == [op |-> "none", self |-> None, possible |-> FALSE]

InitWord ==
    /\ pw = PWIdle
    /\ uw = NoResult
    /\ wcall = NoWordCall

\* parse_unknown_word(string) is called
CallParse ==
    /\ UNCHANGED << class_vars, trie_vars, share_vars >>
    /\ pw.pc = "idle"
    /\ \E string \in PatternInputs : pw' = PWStart(string)
    /\ UNCHANGED << uw, wcall >>

\* the loop is at a character and the list can still grow
InLoop == pw.pc = "loop" /\ pw.index < Len(pw.unknown) /\ Len(pw.spaces) < MemoryLimit

\* an iteration on a letter or an underscore
LoopLetter ==
    /\ UNCHANGED << class_vars, trie_vars, share_vars >>
    /\ InLoop
    /\ PWAtLetter(pw)
    /\ pw' = PWLetter(pw)
    /\ UNCHANGED << uw, wcall >>

\* an iteration on an opening delimiter
LoopBracket ==
    /\ UNCHANGED << class_vars, trie_vars, share_vars >>
    /\ InLoop
    /\ PWAtBracket(pw)
    /\ pw' = PWBracket(pw)
    /\ UNCHANGED << uw, wcall >>

\* an iteration on any other character
LoopUnexpected ==
    /\ UNCHANGED << class_vars, trie_vars, share_vars >>
    /\ InLoop
    /\ ~PWAtLetter(pw) /\ ~PWAtBracket(pw)
    /\ pw' = PWStep(pw)
    /\ UNCHANGED << uw, wcall >>

\* an iteration with the list as long as memory allows: the run ends with
\* Python's MemoryError
LoopExhausts ==
    /\ UNCHANGED << class_vars, trie_vars, share_vars >>
    /\ pw.pc = "loop" /\ pw.index < Len(pw.unknown)
    /\ Len(pw.spaces) >= MemoryLimit
    /\ pw' = [pw EXCEPT !.pc = "memory_error", !.error = "MemoryError"]
    /\ UNCHANGED << uw, wcall >>

\* the loop has ended: return UnknownWord(spaces, filter, hard_filter)
ParseReturn ==
    /\ UNCHANGED << class_vars, trie_vars, share_vars >>
    /\ pw.pc = "loop" /\ pw.index >= Len(pw.unknown)
    /\ pw' = [pw EXCEPT !.pc = "returned"]
    /\ uw' = PWReturn(pw)
    /\ wcall' = [NoWordCall EXCEPT !.op = "parse_unknown_word"]

\* uw.is_possible
IsPossible ==
    /\ UNCHANGED << class_vars, trie_vars, share_vars >>
    /\ wcall.op = "parse_unknown_word"
    /\ uw.kind = "returned"
    /\ wcall' = [op |-> "is_possible", self |-> uw.value,
                 possible |-> is_possible(The(uw.value))]
    /\ UNCHANGED << pw, uw >>

\* uw = uw.without_first_letter()
WithoutFirstLetter ==
    /\ UNCHANGED << class_vars, trie_vars, share_vars >>
    /\ wcall.op \in {"parse_unknown_word", "without_first_letter"}
    /\ uw.kind = "returned" /\ ~IsNone(uw.value)
    /\ uw' = without_first_letter(The(uw.value))
    /\ wcall' = [NoWordCall EXCEPT !.op = "without_first_letter", !.self = uw.value]
    /\ UNCHANGED pw

\* uw = uw.without_space(index), for an index of the list
WithoutSpace ==
    /\ UNCHANGED << class_vars, trie_vars, share_vars >>
    /\ wcall.op = "parse_unknown_word"
    /\ uw.kind = "returned" /\ ~IsNone(uw.value)
    /\ \E index \in 0..(Len(The(uw.value).spaces) - 1) :
        uw' = without_space(The(uw.value), index)
    /\ wcall' = [NoWordCall EXCEPT !.op = "without_space", !.self = uw.value]
    /\ UNCHANGED pw

---------------------------------------------------------------------------
(* Properties of the parser and of UnknownWord, under SpecWord *)

\* string has an opening delimiter with no matching closing delimiter after it
HasUnclosedOpener(string) ==
    \E i \in DOMAIN string :
        /\ string[i] \in {"[", "{", "("}
        /\ \A j \in (i + 1)..Len(string) : string[j] # BRACKET_MATCHES(string[i])

\* C4 as claimed: on a string with an opening delimiter that is never closed,
\* parse_unknown_word, once called, is still running or has raised its parse
\* error: it never returns a pattern and never runs on until memory is
\* exhausted
C4_AsClaimed ==
    (pw.pc # "idle" /\ HasUnclosedOpener(pw.string)) => pw.pc \in {"loop", "raised"}

\* x lies in the filter's interval, an unbounded maximum being no upper limit
InFilterInterval(f, x) ==
    /\ x # -1
    /\ f.min_blanks <= x
    /\ f.max_blanks = -1 \/ x <= f.max_blanks

\* C8 as claimed: is_possible is true exactly when the pattern has no filter
\* or its summed minimum or its summed maximum lies in the filter's interval
C8_AsClaimed ==
    wcall.op = "is_possible" =>
        LET self == The(wcall.self)
            calc == calc_length_bounds(self)
        IN  wcall.possible <=>
                \/ IsNone(self.filter)
                \/ InFilterInterval(The(self.filter), calc[1])
                \/ InFilterInterval(The(self.filter), calc[2])

\* C10 as claimed: without_first_letter never raises, and returns None when
\* the total maximum length of its receiver is 0
C10_AsClaimed ==
    wcall.op = "without_first_letter" =>
        /\ uw.kind = "returned"
        /\ calc_length_bounds(The(wcall.self))[2] = 0 => IsNone(uw.value)

\* C15 as claimed: the filter that without_space or without_first_letter
\* gets by clone_minus from a filter with valid bounds and a maximum other
\* than 0 has valid bounds again, a minimum not above the receiver's, and a
\* finite maximum of 0 or more when the receiver's maximum was finite
C15_AsClaimed ==
    (/\ wcall.op \in {"without_space", "without_first_letter"}
     /\ ~IsNone(The(wcall.self).filter)
     /\ ValidBounds(The(The(wcall.self).filter))
     /\ The(The(wcall.self).filter).max_blanks # 0
     /\ uw.kind = "returned"
     /\ ~IsNone(uw.value)) =>
        LET old == The(The(wcall.self).filter)
            new == The(The(uw.value).filter)
        IN  /\ ~IsNone(The(uw.value).filter)
            /\ ValidBounds(new)
            /\ new.min_blanks <= old.min_blanks
            /\ old.max_blanks # -1 => new.max_blanks >= 0

\* the strings the units are tried on hold at most MaxMatchLen letters
MaxMatchLen == 3

\* the letters of those strings
MatchLetters == {"a", "b", "c"}

RECURSIVE MatchStrings(_)
\* the strings of at most n letters
MatchStrings(n) ==
    IF n = 0 THEN { << >> }
    ELSE MatchStrings(n - 1)
         \cup { << x >> \o w : x \in MatchLetters, w \in MatchStrings(n - 1) }

RECURSIVE MatchedFrom(_, _, _)
\* the units from the i-th on match w: each unit takes a number of letters
\* within its bounds, all of them among its characters
MatchedFrom(units, i, w) ==
    IF i > Len(units) THEN w = << >>
    ELSE \E k \in 0..Len(w) :
            /\ units[i].min_blanks <= k
            /\ units[i].max_blanks = -1 \/ k <= units[i].max_blanks
            /\ \A j \in 1..k : w[j] \in units[i].possible_characters
            /\ MatchedFrom(units, i + 1, SubSeq(w, k + 1, Len(w)))

\* C13 as claimed: for a pattern without a filter whose maximum length is not
\* 0, without_first_letter returns a pattern whose units match exactly the
\* strings w such that some letter followed by w is matched by the receiver's
\* units
C13_AsClaimed ==
    (/\ wcall.op = "without_first_letter"
     /\ IsNone(The(wcall.self).filter)
     /\ calc_length_bounds(The(wcall.self))[2] # 0) =>
        /\ uw.kind = "returned"
        /\ ~IsNone(uw.value)
        /\ \A w \in MatchStrings(MaxMatchLen) :
            MatchedFrom(The(uw.value).spaces, 1, w)
                <=> \E x \in MatchLetters :
                        MatchedFrom(The(wcall.self).spaces, 1, << x >> \o w)

---------------------------------------------------------------------------
(* SpecShare: objects and references.  A caller makes BlankSpaces, builds   *)
(* an UnknownWord from them, makes one call on it or on one of its units,   *)
(* and then changes, with apply_filter, an object the call returned or one  *)
(* it had passed to the constructor.  A BlankSpace object is a place of the *)
(* heap; a list of BlankSpaces is the list of their places.                 *)

\* the places the next n objects get
NewPlaces(h, n) == [i \in 1..n |-> Len(h) + i]

\* copy.deepcopy of an optional BlankSpace value, as the list of objects made
OptionalObject(o) == IF IsNone(o) THEN << >> ELSE << The(o) >>

\* the field values of the UnknownWord o, read from the heap h
Deref(h, o) ==
    [ spaces |-> [i \in DOMAIN o.spaces |-> h[o.spaces[i]]],
      filter |-> IF IsNone(o.filter) THEN None ELSE Some(h[The(o.filter)]),
      hard_filter |-> o.hard_filter ]

\* the UnknownWord whose units are the objects after the heap h, for the
\* field values w: what UnknownWord.__init__ makes by deep copy
CopiedOnto(h, w) ==
    [ spaces |-> NewPlaces(h, Len(w.spaces)),
      filter |-> IF IsNone(w.filter) THEN None
                 ELSE Some(Len(h) + Len(w.spaces) + 1),
      hard_filter |-> w.hard_filter ]

\* the places of the UnknownWord o, the filter's last
PlacesOf(o) == o.spaces \o OptionalObject(o.filter)

\* the units and filters the caller makes
ShareUnits ==
    { The(parse_blank_space(tok).value) :
        tok \in { << "_" >>, << "b" >>, << "[", ",", "2", "a", "]" >>,
                  << "[", "2", ",", "b", "]" >> } }

ShareUnitLists ==
    { << u >> : u \in ShareUnits } \cup { << u, v >> : u \in ShareUnits, v \in ShareUnits }

ShareFilters ==
    { None, parse_blank_space(<< "{", "a", "b", "c", "}" >>).value,
      parse_blank_space(<< "{", "1", ",", "2", "}" >>).value }

\* the filter sets of the apply_filter and with_filter calls
ShareFilterSets == SUBSET {"a", "b"}

NoShareCall == [op |-> "none"]

NoOwner == [spaces |-> << >>, filter |-> None, hard_filter |-> FALSE]

InitShare ==
    /\ heap = << >>
    /\ owner = NoOwner
    /\ outer = << >>
    /\ handed = << >>
    /\ before = NoOwner
    /\ vcall = NoShareCall

\* the caller makes its units and its filter and calls
\* UnknownWord(spaces, filter, hard_filter), which keeps deep copies
NewPattern ==
    /\ UNCHANGED << class_vars, trie_vars, word_vars >>
    /\ vcall.op = "none"
    /\ \E units \in ShareUnitLists, f \in ShareFilters, hard \in BOOLEAN :
        LET made == units \o OptionalObject(f)
            r == UnknownWord(units, f, hard)
        IN  /\ r.kind = "returned"
            /\ outer' = NewPlaces(<< >>, Len(made))
            /\ owner' = CopiedOnto(made, The(r.value))
            /\ heap' = made \o made
            /\ before' = The(r.value)
            /\ handed' = << >>
            /\ vcall' = [op |-> "construct"]

\* owner.get_effective_spaces(): self.spaces itself without a filter, a list
\* of new objects made by with_filter with one
ShareEffectiveSpaces ==
    /\ UNCHANGED << class_vars, trie_vars, word_vars >>
    /\ vcall.op = "construct"
    /\ LET self == Deref(heap, owner)
       IN  IF ~has_filter(self)
           THEN /\ handed' = owner.spaces
                /\ UNCHANGED heap
           ELSE /\ handed' = NewPlaces(heap, Len(self.spaces))
                /\ heap' = heap \o get_effective_spaces(self)
    /\ vcall' = [op |-> "get_effective_spaces"]
    /\ UNCHANGED << owner, outer, before >>

\* owner[i].with_filter(filter_chars, hard): a deep copy, then apply_filter
\* on the copy
ShareWithFilter ==
    /\ UNCHANGED << class_vars, trie_vars, word_vars >>
    /\ vcall.op = "construct"
    /\ \E i \in DOMAIN owner.spaces, filter_chars \in ShareFilterSets, hard \in BOOLEAN :
        /\ heap' = Append(heap, with_filter(heap[owner.spaces[i]], filter_chars, hard))
        /\ handed' = NewPlaces(heap, 1)
    /\ vcall' = [op |-> "with_filter"]
    /\ UNCHANGED << owner, outer, before >>

\* owner[i].clone_minus(sub_min): a new object, or the error raised
ShareCloneMinus ==
    /\ UNCHANGED << class_vars, trie_vars, word_vars >>
    /\ vcall.op = "construct"
    /\ \E i \in DOMAIN owner.spaces, sub_min \in 0..1 :
        LET r == clone_minus(heap[owner.spaces[i]], sub_min, None)
        IN  IF r.kind = "raised"
            THEN /\ handed' = << >>
                 /\ UNCHANGED heap
            ELSE /\ heap' = Append(heap, The(r.value))
                 /\ handed' = NewPlaces(heap, 1)
    /\ vcall' = [op |-> "clone_minus"]
    /\ UNCHANGED << owner, outer, before >>

\* what a call that returns an UnknownWord, None or an error leaves: the
\* new UnknownWord's objects are the deep copies its constructor made
ShareReturnsWord(r, op) ==
    /\ IF r.kind = "returned" /\ ~IsNone(r.value)
       THEN /\ heap' = heap \o The(r.value).spaces \o OptionalObject(The(r.value).filter)
            /\ handed' = PlacesOf(CopiedOnto(heap, The(r.value)))
       ELSE /\ handed' = << >>
            /\ UNCHANGED heap
    /\ vcall' = [op |-> op]
    /\ UNCHANGED << owner, outer, before >>

\* owner.without_space(index)
ShareWithoutSpace ==
    /\ UNCHANGED << class_vars, trie_vars, word_vars >>
    /\ vcall.op = "construct"
    /\ \E index \in 0..(Len(owner.spaces) - 1) :
        ShareReturnsWord(without_space(Deref(heap, owner), index), "without_space")

\* owner.without_first_letter()
ShareWithoutFirstLetter ==
    /\ UNCHANGED << class_vars, trie_vars, word_vars >>
    /\ vcall.op = "construct"
    /\ ShareReturnsWord(without_first_letter(Deref(heap, owner)),
                        "without_first_letter")

\* apply_filter(filter_chars, hard) on the object at a place
Mutate(place, filter_chars, hard) ==
    /\ heap' = [heap EXCEPT ![place] = apply_filter(heap[place], filter_chars, hard)]
    /\ UNCHANGED << owner, outer, handed, before >>

\* the caller calls apply_filter on an object the last call returned
MutateHanded ==
    /\ UNCHANGED << class_vars, trie_vars, word_vars >>
    /\ vcall.op \notin {"none", "construct", "apply_filter"}
    /\ \E k \in DOMAIN handed, filter_chars \in ShareFilterSets, hard \in BOOLEAN :
        Mutate(handed[k], filter_chars, hard)
    /\ vcall' = [op |-> "apply_filter"]

\* the caller calls apply_filter on an object it passed to the constructor
MutateOuter ==
    /\ UNCHANGED << class_vars, trie_vars, word_vars >>
    /\ vcall.op \notin {"none", "apply_filter"}
    /\ \E k \in DOMAIN outer, filter_chars \in ShareFilterSets, hard \in BOOLEAN :
        Mutate(outer[k], filter_chars, hard)
    /\ vcall' = [op |-> "apply_filter"]

\* C14 as claimed: whatever call has been made, and whatever the caller has
\* then done to an object the call returned or to an object it passed to the
\* constructor, the units and the filter of the UnknownWord have the field
\* values they had when it was constructed
C14_AsClaimed ==
    vcall.op # "none" => Deref(heap, owner) = before

---------------------------------------------------------------------------
(* Specifications *)
(* The class, the trie and the parser share no state: each is checked      *)
(* under its own specification, and Spec interleaves them freely.          *)

Init ==
    /\ InitClass
    /\ InitTrie
    /\ InitWord
    /\ InitShare

NextClass ==
    \/ Construct
    \/ ParseDelimited
    \/ ParseShort
    \/ ApplyFilter
    \/ WithFilter
    \/ CloneMinus
    \/ ReprParse

NextTrie ==
    \/ Insert
    \/ InsertRaises
    \/ QueryPossibleChildren
    \/ QueryMatchPattern
    \/ QueryIsWord

NextWord ==
    \/ CallParse
    \/ LoopLetter
    \/ LoopBracket
    \/ LoopUnexpected
    \/ LoopExhausts
    \/ ParseReturn
    \/ IsPossible
    \/ WithoutFirstLetter
    \/ WithoutSpace

NextShare ==
    \/ NewPattern
    \/ ShareEffectiveSpaces
    \/ ShareWithFilter
    \/ ShareCloneMinus
    \/ ShareWithoutSpace
    \/ ShareWithoutFirstLetter
    \/ MutateHanded
    \/ MutateOuter

Next == NextClass \/ NextTrie \/ NextWord \/ NextShare

SpecClass == Init /\ [][NextClass]_vars

SpecTrie == Init /\ [][NextTrie]_vars

SpecWord == Init /\ [][NextWord]_vars

SpecShare == Init /\ [][NextShare]_vars

Spec == Init /\ [][Next]_vars

====
